---- MODULE Spec2Model ----
(***************************************************************************)
(* RSI scalping back-test (src/main.py).                                   *)
(*                                                                         *)
(* Two parts of the program are modelled:                                  *)
(*   - the replay of one policy variant (Strategy1_FixedSLTP,              *)
(*     Strategy2_ATRBased, Strategy3_TrailingStop) bar by bar, as          *)
(*     run_backtest drives it: for every bar the broker first processes    *)
(*     the orders left by the previous bar, then the strategy's next()     *)
(*     runs.  Specification: Spec.                                         *)
(*   - the signal pipeline: generate_ema_signal followed by                *)
(*     generate_total_signal as main() chains them (SpecPipe), and         *)
(*     generate_total_signal on an arbitrary labelled frame (SpecTot).     *)
(*                                                                         *)
(* Units: prices and ATR are integers in pips (1e-4); sizes are integers   *)
(* in tenths (initsize 0.2 is 2).  ATR values are multiples of 100 so that *)
(* 1.3*ATR, 1.3*1.3*ATR and 1.5*ATR are whole numbers.                     *)
(***************************************************************************)
EXTENDS Integers, Sequences, FiniteSets, TLC

VARIABLES
    pc,             \* position of the program: replay or pipeline stage
    \* ---- replay (run_backtest) ----
    variant,        \* "A" | "B" | "C": the strategy class being replayed
    bar,            \* number of bars replayed so far
    Close,          \* self.data.Close[-1] of the current bar
    ATR,            \* self.data.ATR[-1] of the current bar
    signal1,        \* self.signal1 of the current bar (0, 1 = Sell, 2 = Buy)
    mysize,         \* self.mysize
    trades,         \* self.trades: the open trades
    orders,         \* entry orders placed by next(), not yet processed
    closed_trades,  \* self.closed_trades: the pl of each closed trade
    nextId,         \* id the next opened trade gets
    orderLog,       \* every entry order issued so far (history)
    rejected,       \* the broker cancelled the entry order during this bar
    \* ---- pipeline ----
    df,             \* the data frame: a sequence of rows
    row,            \* loop variable of the running function
    emasignal,      \* local list of generate_ema_signal
    TotSignal,      \* local list of generate_total_signal
    \* ---- main ----
    results         \* results of main: per finished replay, the variant
                    \* and the mysize its strategy instance ended with

vars == <<pc, variant, bar, Close, ATR, signal1, mysize, trades, orders,
          closed_trades, nextId, orderLog, rejected,
          df, row, emasignal, TotSignal, results>>

replayVars == <<variant, bar, Close, ATR, signal1, mysize, trades, orders,
                closed_trades, nextId, orderLog, rejected>>
pipeVars == <<df, row, emasignal, TotSignal>>
mainVars == <<results>>

----------------------------------------------------------------------------
(* Bounds of the model *)
MaxBars == 4
MaxRows == 3
MaxTotRows == 2
MaxScanRows == 4
MaxMainRows == 2
Backcandles == 2

(* Program constants *)
InitSize == 2
FixedOffset == 45
RSI_OVERSOLD == 10
RSI_OVERBOUGHT == 90

(* pandas' NaN; every comparison with it is False *)
NaN == -1
(* value of a column that has not been assigned yet *)
NoCol == -2

(* inputs of the pipeline: prices around an EMA of 2, RSI readings at and  *)
(* between the two thresholds                                              *)
EmaVals == {NaN, 2}
PipeRsiVals == {NaN, RSI_OVERSOLD, RSI_OVERBOUGHT}
TotRsiVals == {NaN, RSI_OVERSOLD, 50, RSI_OVERBOUGHT}
LabelVals == {0, 1, 2, 3}

CloseVals == {11000, 11200}
AtrVals == {100, 200}
SignalVals == {0, 1, 2}
PlVals == {-1, 0, 1}

Max(a, b) == IF a >= b THEN a ELSE b
Min(a, b) == IF a <= b THEN a ELSE b
Last(s) == s[Len(s)]

----------------------------------------------------------------------------
(* Replay of one policy variant: Backtest(dfpl, CustomStrategy, ...).run() *)

(* self.trades[...]: one open trade.  sl = 0 / tp = 0 stand for "not set"  *)
(* (Python's None; `trade.sl or x` treats None and 0 alike).  closing is   *)
(* TRUE once trade.close() has placed its closing order.                   *)
Trade(id, o) ==
    [id |-> id, is_long |-> o.is_long, sl |-> o.sl, tp |-> o.tp,
     size |-> o.size, closing |-> FALSE]

(* len(self.trades) == 0 *)
NoOpenTradeAlways == TRUE
NoOpenTrade == Len(trades) = 0

(* ---- the broker's part of a bar ---- *)

(* Orders placed by trade.close() run first: the trade leaves self.trades  *)
(* and its pl is appended to self.closed_trades.                           *)
StillOpen(trs) == SelectSeq(trs, LAMBDA t : ~t.closing)
ClosedBy(trs, pl) ==
    LET c == SelectSeq(trs, LAMBDA t : t.closing)
    IN  [i \in 1..Len(c) |-> pl]

(* A pending entry order is either filled at the bar's open or cancelled   *)
(* by the broker.                                                          *)
Filled(ords, fill, id) ==
    IF fill THEN [i \in 1..Len(ords) |-> Trade(id + i - 1, ords[i])] ELSE <<>>

(* self.buy / self.sell: the order is queued for the next bar *)
Order(long, sl, tp, size) ==
    [is_long |-> long, sl |-> sl, tp |-> tp, size |-> size]

(* the broker's choices that matter in the current state *)
FillChoices == IF Len(orders) > 0 THEN BOOLEAN ELSE {TRUE}
ClosePlChoices ==
    IF \E i \in 1..Len(trades) : trades[i].closing THEN PlVals ELSE {0}

(* One bar of the broker: the bar's data arrive, closing orders execute,   *)
(* the entry order is filled or cancelled, and the stop-loss / take-profit *)
(* of an open trade may be hit, with a pl that depends on the prices.      *)
BrokerNext ==
    /\ pc = "broker"
    /\ bar < MaxBars
    /\ \E c \in CloseVals, a \in AtrVals, s \in SignalVals,
          fill \in FillChoices, plc \in ClosePlChoices :
          LET t1 == StillOpen(trades)
              c1 == closed_trades \o ClosedBy(trades, plc)
              t2 == t1 \o Filled(orders, fill, nextId)
          IN  \E hit \in (IF Len(t2) > 0 THEN BOOLEAN ELSE {FALSE}) :
              \E pls \in (IF hit THEN PlVals ELSE {0}) :
                  /\ Close' = c
                  /\ ATR' = a
                  /\ signal1' = s
                  /\ trades' = IF hit THEN Tail(t2) ELSE t2
                  /\ closed_trades' = IF hit THEN Append(c1, pls) ELSE c1
                  /\ orders' = <<>>
                  /\ rejected' = (Len(orders) > 0 /\ ~fill)
                  /\ nextId' = nextId + Len(Filled(orders, fill, nextId))
    /\ bar' = bar + 1
    /\ pc' = "strategy"
    /\ UNCHANGED <<variant, mysize, orderLog>>
    /\ UNCHANGED pipeVars
    /\ UNCHANGED mainVars

(* ---- Strategy1_FixedSLTP.next ---- *)

(* closed_trades[-1].pl, 0 when nothing has closed yet (the code guards    *)
(* every read with len(self.closed_trades) > 0)                            *)
LastPl == IF Len(closed_trades) > 0 THEN Last(closed_trades) ELSE 0
HasClosed == Len(closed_trades) > 0

DoubledLinear(s) == s + InitSize
Doubled(s) == s * 2

LastWasWinOrFlat == HasClosed /\ LastPl >= 0
LastWasWin == HasClosed /\ LastPl > 0

LastWasLoss == HasClosed /\ LastPl < 0

(* lines 185-189 *)
Martingale(s) ==
    IF signal1 > 0 /\ NoOpenTrade /\ LastWasLoss THEN Doubled(s)
    ELSE IF LastWasWin THEN InitSize
    ELSE s

Entry1Swapped(size) ==
    IF signal1 = 2 /\ NoOpenTrade
    THEN <<Order(TRUE, Close - FixedOffset, Close + FixedOffset, size)>>
    ELSE IF signal1 = 1 /\ NoOpenTrade
    THEN <<Order(FALSE, Close - FixedOffset, Close + FixedOffset, size)>>
    ELSE <<>>
(* lines 192-201 *)
Entry1(size) ==
    IF signal1 = 2 /\ NoOpenTrade
    THEN <<Order(TRUE, Close - FixedOffset, Close + FixedOffset, size)>>
    ELSE IF signal1 = 1 /\ NoOpenTrade
    THEN <<Order(FALSE, Close + FixedOffset, Close - FixedOffset, size)>>
    ELSE <<>>

(* history of the entry orders: the size asked for, self.mysize when the   *)
(* bar's next() began, and how the last closed trade had ended             *)
Logged(ords, before) ==
    [i \in 1..Len(ords) |->
        [size |-> ords[i].size, is_long |-> ords[i].is_long,
         before |-> before, lastPl |-> LastPl, hasClosed |-> HasClosed]]

Strategy1Next ==
    /\ pc = "strategy"
    /\ variant = "A"
    /\ LET size == Martingale(mysize)
           ords == Entry1(size)
       IN  /\ mysize' = size
           /\ orders' = orders \o ords
           /\ orderLog' = orderLog \o Logged(ords, mysize)
    /\ pc' = "broker"
    /\ UNCHANGED <<variant, bar, Close, ATR, signal1, trades, closed_trades,
                   nextId, rejected>>
    /\ UNCHANGED pipeVars
    /\ UNCHANGED mainVars

(* ---- Strategy2_ATRBased.next ---- *)
SlAtrMult10 == 13
TPSLRatio10 == 13
SlAtr == (SlAtrMult10 * ATR) \div 10
TpAtrNoRatio == SlAtr
TpAtr == (TPSLRatio10 * SlAtr) \div 10

Entry2(size) ==
    IF signal1 = 2 /\ NoOpenTrade
    THEN <<Order(TRUE, Close - SlAtr, Close + TpAtr, size)>>
    ELSE IF signal1 = 1 /\ NoOpenTrade
    THEN <<Order(FALSE, Close + SlAtr, Close - TpAtr, size)>>
    ELSE <<>>

Strategy2Next ==
    /\ pc = "strategy"
    /\ variant = "B"
    /\ LET ords == Entry2(mysize)
       IN  /\ orders' = orders \o ords
           /\ orderLog' = orderLog \o Logged(ords, mysize)
    /\ pc' = "broker"
    /\ UNCHANGED <<variant, bar, Close, ATR, signal1, mysize, trades,
                   closed_trades, nextId, rejected>>
    /\ UNCHANGED pipeVars
    /\ UNCHANGED mainVars

(* ---- Strategy3_TrailingStop.next ---- *)
SltrMult10 == 15
Sltr == (SltrMult10 * ATR) \div 10

(* max(trade.sl or -np.inf, Close - sltr) *)
TrailLongNoMax(sl, x) == x
TrailLong(sl, x) == IF sl = 0 THEN x ELSE Max(sl, x)
(* min(trade.sl or np.inf, Close + sltr) *)
TrailShort(sl, x) == IF sl = 0 THEN x ELSE Min(sl, x)

ManageNoFlip(t) ==
    IF t.is_long
    THEN [t EXCEPT !.sl = TrailLong(t.sl, Close - Sltr)]
    ELSE [t EXCEPT !.sl = TrailShort(t.sl, Close + Sltr)]
(* body of `for trade in self.trades` *)
Manage(t) ==
    IF t.is_long
    THEN [t EXCEPT !.sl = TrailLong(t.sl, Close - Sltr),
                   !.closing = (t.closing \/ signal1 = 1)]
    ELSE [t EXCEPT !.sl = TrailShort(t.sl, Close + Sltr),
                   !.closing = (t.closing \/ signal1 = 2)]

(* trade.close() only queues a closing order: the trade stays in           *)
(* self.trades until the broker runs it on the next bar, so the entry      *)
(* tests below still see it.                                               *)
Entry3(size) ==
    IF signal1 = 2 /\ NoOpenTrade
    THEN <<Order(TRUE, Close - Sltr, 0, size)>>
    ELSE IF signal1 = 1 /\ NoOpenTrade
    THEN <<Order(FALSE, Close + Sltr, 0, size)>>
    ELSE <<>>

Strategy3Next ==
    /\ pc = "strategy"
    /\ variant = "C"
    /\ trades' = [i \in 1..Len(trades) |-> Manage(trades[i])]
    /\ LET ords == Entry3(mysize)
       IN  /\ orders' = orders \o ords
           /\ orderLog' = orderLog \o Logged(ords, mysize)
    /\ pc' = "broker"
    /\ UNCHANGED <<variant, bar, Close, ATR, signal1, mysize, closed_trades,
                   nextId, rejected>>
    /\ UNCHANGED pipeVars
    /\ UNCHANGED mainVars

(* run_backtest(strategy_class, ...): a fresh strategy instance, whose     *)
(* mysize is the class attribute initsize, and a fresh broker              *)
PipeIdle ==
    /\ df = <<>>
    /\ row = 0
    /\ emasignal = <<>>
    /\ TotSignal = <<>>

Init ==
    /\ pc = "broker"
    /\ variant \in {"A", "B", "C"}
    /\ bar = 0
    /\ Close = 11000
    /\ ATR = 100
    /\ signal1 = 0
    /\ mysize = InitSize
    /\ trades = <<>>
    /\ orders = <<>>
    /\ closed_trades = <<>>
    /\ nextId = 1
    /\ orderLog = <<>>
    /\ rejected = FALSE
    /\ PipeIdle
    /\ results = <<>>

Next ==
    \/ BrokerNext
    \/ Strategy1Next
    \/ Strategy2Next
    \/ Strategy3Next

Spec == Init /\ [][Next]_vars

----------------------------------------------------------------------------
(* The signal pipeline: generate_ema_signal, generate_total_signal *)

(* One row of df.  idx is the row's index label, time the bar it holds;    *)
(* EMAsignal and TotSignal are NoCol until the column is assigned.         *)
Row(i, h, l, e, r, lab) ==
    [idx |-> i, time |-> i, High |-> h, Low |-> l, EMA |-> e, RSI |-> r,
     EMAsignal |-> lab, TotSignal |-> NoCol]

(* Python / numpy comparisons: False whenever an operand is NaN *)
Ge(a, b) == a # NaN /\ b # NaN /\ a >= b
Le(a, b) == a # NaN /\ b # NaN /\ a <= b

(* df.High[i], df[ema_col][i], df.RSI[row]: a lookup by index label on an  *)
(* integer index; a label that is not in the index raises KeyError.        *)
HasLabel(d, i) == \E r \in 1..Len(d) : d[r].idx = i
Loc(d, i) == d[CHOOSE r \in 1..Len(d) : d[r].idx = i]

(* range(row-backcandles, row+1) *)
Window(r) == (r - Backcandles)..r
WindowRaises(d, r) == \E i \in Window(r) : ~HasLabel(d, i)

(* lines 101-109: the two flags after the scan of the window *)
Upt(d, r) == ~\E i \in Window(r) : Le(Loc(d, i).Low, Loc(d, i).EMA)
DntFlipped(d, r) ==
    ~\E i \in Window(r) : Le(Loc(d, i).High, Loc(d, i).EMA)
Dnt(d, r) == ~\E i \in Window(r) : Ge(Loc(d, i).High, Loc(d, i).EMA)

(* lines 112-117; the list entry stays 0 when neither flag is left *)
Label(upt, dnt) ==
    IF upt /\ dnt THEN 3
    ELSE IF upt THEN 2
    ELSE IF dnt THEN 1
    ELSE 0

(* [0] * len(df) *)
Zeros(n) == [i \in 1..n |-> 0]

(* one iteration of `for row in range(backcandles-1, len(df))` *)
EmaRow ==
    /\ pc = "ema"
    /\ row < Len(df)
    /\ IF WindowRaises(df, row)
       THEN /\ pc' = "KeyError"
            /\ UNCHANGED <<row, emasignal>>
       ELSE /\ emasignal' =
                 [emasignal EXCEPT ![row + 1] = Label(Upt(df, row), Dnt(df, row))]
            /\ row' = row + 1
            /\ pc' = pc
    /\ UNCHANGED <<df, TotSignal>>
    /\ UNCHANGED replayVars
    /\ UNCHANGED mainVars

(* df['EMAsignal'] = emasignal; return df; then generate_total_signal      *)
(* starts with TotSignal = [0] * len(df)                                   *)
EmaReturn ==
    /\ pc = "ema"
    /\ row >= Len(df)
    /\ df' = [i \in 1..Len(df) |-> [df[i] EXCEPT !.EMAsignal = emasignal[i]]]
    /\ TotSignal' = Zeros(Len(df))
    /\ row' = 0
    /\ pc' = "tot"
    /\ UNCHANGED emasignal
    /\ UNCHANGED replayVars
    /\ UNCHANGED mainVars

(* lines 143 and 147 *)
IsSellNoTrend(lab, rsi) == Ge(rsi, RSI_OVERBOUGHT)
IsSell(lab, rsi) == lab = 1 /\ Ge(rsi, RSI_OVERBOUGHT)
IsBuyAmbiguous(lab, rsi) == lab >= 2 /\ Le(rsi, RSI_OVERSOLD)
IsBuyStrict(lab, rsi) == lab = 2 /\ rsi # NaN /\ rsi < RSI_OVERSOLD
IsBuy(lab, rsi) == lab = 2 /\ Le(rsi, RSI_OVERSOLD)

(* lines 140-148: 0, overwritten by 1 on Sell, overwritten by 2 on Buy *)
SignalOf(lab, rsi) ==
    LET s1 == IF IsSell(lab, rsi) THEN 1 ELSE 0
    IN  IF IsBuy(lab, rsi) THEN 2 ELSE s1

(* one iteration of `for row in range(0, len(df))` *)
TotRow ==
    /\ pc = "tot"
    /\ row < Len(df)
    /\ TotSignal' =
         [TotSignal EXCEPT ![row + 1] =
             SignalOf(Loc(df, row).EMAsignal, Loc(df, row).RSI)]
    /\ row' = row + 1
    /\ UNCHANGED <<pc, df, emasignal>>
    /\ UNCHANGED replayVars
    /\ UNCHANGED mainVars

(* df['TotSignal'] = TotSignal *)
SetTot(d, tot) == [i \in 1..Len(d) |-> [d[i] EXCEPT !.TotSignal = tot[i]]]

IsNaRow(r) ==
    r.High = NaN \/ r.Low = NaN \/ r.EMA = NaN \/ r.RSI = NaN

(* df.dropna(inplace=True): whole rows go, each kept row keeps its fields  *)
DropNaKeepSignals(d) ==
    LET kept == SelectSeq(d, LAMBDA r : ~IsNaRow(r))
    IN  [i \in 1..Len(kept) |-> [kept[i] EXCEPT !.TotSignal = d[i].TotSignal]]
DropNa(d) == SelectSeq(d, LAMBDA r : ~IsNaRow(r))

(* df.reset_index(drop=True, inplace=True) *)
ResetIndex(d) == [i \in 1..Len(d) |-> [d[i] EXCEPT !.idx = i - 1]]

(* lines 150-159 *)
TotReturn ==
    /\ pc = "tot"
    /\ row >= Len(df)
    /\ df' = ResetIndex(DropNa(SetTot(df, TotSignal)))
    /\ pc' = "done"
    /\ UNCHANGED <<row, emasignal, TotSignal>>
    /\ UNCHANGED replayVars
    /\ UNCHANGED mainVars

ReplayIdle ==
    /\ variant = "A"
    /\ bar = 0
    /\ Close = 11000
    /\ ATR = 100
    /\ signal1 = 0
    /\ mysize = InitSize
    /\ trades = <<>>
    /\ orders = <<>>
    /\ closed_trades = <<>>
    /\ nextId = 1
    /\ orderLog = <<>>
    /\ rejected = FALSE
    /\ results = <<>>

(* the frames main() hands to generate_ema_signal: index 0..n-1 after      *)
(* reset_index, EMA and RSI possibly NaN.  The bars <<High, Low>> lie      *)
(* below the EMA of 2, touch it from below, touch it from above, or lie    *)
(* above it.                                                               *)
PipeBars == {<<1, 1>>, <<2, 1>>, <<3, 2>>, <<3, 3>>}
PipeRows ==
    {<<b[1], b[2], e, r>> : b \in PipeBars, e \in EmaVals, r \in PipeRsiVals}
PipeFrame(f) ==
    [i \in 1..Len(f) |-> Row(i - 1, f[i][1], f[i][2], f[i][3], f[i][4], NoCol)]

InitPipe ==
    /\ pc = "ema"
    /\ \E n \in 0..MaxRows : \E f \in [1..n -> PipeRows] : df = PipeFrame(f)
    /\ row = Backcandles - 1
    /\ emasignal = Zeros(Len(df))
    /\ TotSignal = <<>>
    /\ ReplayIdle

NextPipe ==
    \/ EmaRow
    \/ EmaReturn
    \/ TotRow
    \/ TotReturn

SpecPipe == InitPipe /\ [][NextPipe]_vars

(* generate_total_signal on any frame that has EMAsignal and RSI columns *)
TotHighVals == {NaN, 2}
TotRows == LabelVals \X TotRsiVals \X EmaVals \X TotHighVals
TotFrame(f) ==
    [i \in 1..Len(f) |-> Row(i - 1, f[i][4], 2, f[i][3], f[i][2], f[i][1])]

InitTot ==
    /\ pc = "tot"
    /\ \E n \in 0..MaxTotRows : \E f \in [1..n -> TotRows] : df = TotFrame(f)
    /\ row = 0
    /\ emasignal = <<>>
    /\ TotSignal = Zeros(Len(df))
    /\ ReplayIdle

NextTot ==
    \/ TotRow
    \/ TotReturn

SpecTot == InitTot /\ [][NextTot]_vars

(* The scan of lines 101-117 on its own: the loop of generate_ema_signal   *)
(* entered at any row from backcandles-1 on, over frames that also hold    *)
(* bars with an undefined EMA and bars whose Low is above their High.      *)
ScanBars == {<<1, 1>>, <<3, 3>>, <<2, 1>>, <<1, 3>>}
ScanRows == {<<b[1], b[2], e>> : b \in ScanBars, e \in EmaVals}
ScanFrame(f) ==
    [i \in 1..Len(f) |->
        Row(i - 1, f[i][1], f[i][2], f[i][3], RSI_OVERSOLD, NoCol)]

InitScan ==
    /\ pc = "ema"
    /\ \E n \in 0..MaxScanRows : \E f \in [1..n -> ScanRows] : df = ScanFrame(f)
    /\ row \in (Backcandles - 1)..Max(Backcandles - 1, Len(df))
    /\ emasignal = Zeros(Len(df))
    /\ TotSignal = <<>>
    /\ ReplayIdle

NextScan ==
    \/ EmaRow
    \/ EmaReturn

SpecScan == InitScan /\ [][NextScan]_vars

----------------------------------------------------------------------------
(* Properties of the replay *)

RECURSIVE Pow2(_)
Pow2(n) == IF n <= 0 THEN 1 ELSE 2 * Pow2(n - 1)

(* k: the number of losing trades at the end of the closed-trade history *)
RECURSIVE LossRun(_)
LossRun(cl) ==
    IF Len(cl) = 0 \/ cl[Len(cl)] >= 0 THEN 0
    ELSE 1 + LossRun(SubSeq(cl, 1, Len(cl) - 1))

LastClosedLost == Len(closed_trades) > 0 /\ closed_trades[Len(closed_trades)] < 0
LastClosedWon == Len(closed_trades) > 0 /\ closed_trades[Len(closed_trades)] > 0

(* C1 as stated: in variant A, after every bar, mysize = initsize * 2^k,   *)
(* k the current run of consecutive losing closed trades.                  *)
C1_Original ==
    (variant = "A" /\ pc = "broker")
        => mysize = InitSize * Pow2(LossRun(closed_trades))

(* C1 amended: in variant A mysize is always initsize * 2^j for some       *)
(* j >= 0; a bar's next() doubles it exactly when a signal is active, no   *)
(* trade is open and the most recently closed trade lost (so j lags k      *)
(* until the next signal bar, and runs ahead of k when such bars repeat    *)
(* without a new close); otherwise it resets it to initsize exactly when   *)
(* the most recently closed trade won, and leaves it alone in every other  *)
(* case.  It is never reset except when the most recently closed trade is  *)
(* a win.                                                                  *)
C1_DoublingBar == signal1 > 0 /\ Len(trades) = 0 /\ LastClosedLost
C1_SizeSteps ==
    /\ [](variant = "A" => \E j \in 0..MaxBars : mysize = InitSize * Pow2(j))
    /\ [][(variant = "A" /\ pc = "strategy") =>
            /\ C1_DoublingBar => mysize' = 2 * mysize
            /\ (~C1_DoublingBar /\ LastClosedWon) => mysize' = InitSize
            /\ (~C1_DoublingBar /\ ~LastClosedWon) => mysize' = mysize]_vars
    /\ [][(variant = "A" /\ pc = "broker") => mysize' = mysize]_vars

(* C1 witness: two doublings after a single losing trade *)
C1_Witness ==
    /\ variant = "A"
    /\ Len(closed_trades) = 1
    /\ closed_trades[1] < 0
    /\ mysize = 4 * InitSize

(* C2: at most one trade is open, and an entry order is pending only when  *)
(* no trade is open -- also on a bar of variant C where the open trade is  *)
(* being closed by the opposite signal.                                    *)
C2_AtMostOneTrade ==
    /\ Len(trades) <= 1
    /\ Len(orders) <= 1
    /\ Len(orders) > 0 => Len(trades) = 0

(* C2 witness: variant C has just asked to close its trade on an opposite  *)
(* signal and issued no entry on that bar                                  *)
C2_Witness ==
    /\ variant = "C"
    /\ pc = "broker"
    /\ Len(trades) = 1
    /\ trades[1].closing
    /\ signal1 = (IF trades[1].is_long THEN 1 ELSE 2)
    /\ orders = <<>>

(* C3: while a trade of variant C stays open, the stop of a long never     *)
(* decreases and the stop of a short never increases; the stop set by      *)
(* next() is max(old, Close - 1.5 ATR), resp. min(old, Close + 1.5 ATR).   *)
C3_TrailDistance == (15 * ATR) \div 10
C3_StopMonotone ==
    [][variant = "C" =>
        \A i \in 1..Len(trades) : \A j \in 1..Len(trades') :
            trades[i].id = trades'[j].id =>
                /\ trades[i].is_long => trades'[j].sl >= trades[i].sl
                /\ ~trades[i].is_long => trades'[j].sl <= trades[i].sl
                /\ (pc = "strategy" /\ trades[i].is_long) =>
                     trades'[j].sl = Max(trades[i].sl, Close - C3_TrailDistance)
                /\ (pc = "strategy" /\ ~trades[i].is_long) =>
                     trades'[j].sl = Min(trades[i].sl, Close + C3_TrailDistance)]_vars

(* C3 witness: a long whose stop was kept above the bar's Close - 1.5 ATR, *)
(* and a short whose stop was kept below Close + 1.5 ATR                   *)
C3_Witness ==
    /\ variant = "C"
    /\ pc = "broker"
    /\ Len(trades) = 1
    /\ bar >= 2
    /\ trades[1].is_long
    /\ trades[1].sl > Close - C3_TrailDistance

(* C7: in variant A an entry order issued after a losing close asks for    *)
(* twice the size of the previous entry order, and an entry order issued   *)
(* after a winning close asks for initsize.                                *)
C7_EntrySizing ==
    variant = "A" =>
        \A j \in 1..Len(orderLog) :
            /\ (orderLog[j].hasClosed /\ orderLog[j].lastPl < 0) =>
                   (j > 1 /\ orderLog[j].size = 2 * orderLog[j - 1].size)
            /\ (orderLog[j].hasClosed /\ orderLog[j].lastPl > 0) =>
                   orderLog[j].size = InitSize
            /\ ~orderLog[j].hasClosed => orderLog[j].size = InitSize

(* C7 witness: a doubled entry after a loss, then an entry back at         *)
(* initsize after a win                                                    *)
C7_Witness ==
    /\ variant = "A"
    /\ Len(orderLog) >= 3
    /\ orderLog[2].lastPl < 0
    /\ orderLog[2].size = 2 * InitSize
    /\ orderLog[3].lastPl > 0
    /\ orderLog[3].size = InitSize

(* C8 as stated: when the broker rejects the entry order of a bar,         *)
(* mysize is what it was before that bar's next().                         *)
C8_Original ==
    (variant = "A" /\ rejected) => mysize = orderLog[Len(orderLog)].before

----------------------------------------------------------------------------
(* Properties of the signal pipeline *)

(* C4: the combiner gives Sell iff the label is StrongDowntrend (1) and    *)
(* RSI >= overbought, Buy iff the label is StrongUptrend (2) and           *)
(* RSI <= oversold, both bounds inclusive, None otherwise; never both.     *)
C4_Sell(lab, rsi) == lab = 1 /\ rsi # NaN /\ rsi >= RSI_OVERBOUGHT
C4_Buy(lab, rsi) == lab = 2 /\ rsi # NaN /\ rsi <= RSI_OVERSOLD
C4_Law(sig, lab, rsi) ==
    /\ sig \in {0, 1, 2}
    /\ sig = 1 <=> C4_Sell(lab, rsi)
    /\ sig = 2 <=> C4_Buy(lab, rsi)
    /\ ~(C4_Sell(lab, rsi) /\ C4_Buy(lab, rsi))
C4_SignalLaw ==
    /\ pc = "tot" =>
         \A r \in 1..row : C4_Law(TotSignal[r], df[r].EMAsignal, df[r].RSI)
    /\ pc = "done" =>
         \A r \in 1..Len(df) :
             C4_Law(df[r].TotSignal, df[r].EMAsignal, df[r].RSI)

(* C4 witness: a Buy at exactly the oversold threshold and a Sell at       *)
(* exactly the overbought threshold                                        *)
C4_Witness ==
    /\ pc = "tot"
    /\ row = 2
    /\ df[1].EMAsignal = 2 /\ df[1].RSI = RSI_OVERSOLD /\ TotSignal[1] = 2
    /\ df[2].EMAsignal = 1 /\ df[2].RSI = RSI_OVERBOUGHT /\ TotSignal[2] = 1

(* C5: every bar before index backcandles-1 is labelled NoTrend (0) and    *)
(* carries the signal None (0), whatever its prices, EMA and RSI.          *)
C5_Warmup ==
    \A i \in 0..(Backcandles - 2) :
        /\ i < Len(emasignal) => emasignal[i + 1] = 0
        /\ ((pc = "tot" /\ i < row) \/ (pc = "done" /\ i < Len(TotSignal)))
               => TotSignal[i + 1] = 0
        /\ \A r \in 1..Len(df) :
               df[r].time = i =>
                   /\ df[r].EMAsignal \in {NoCol, 0}
                   /\ df[r].TotSignal \in {NoCol, 0}

(* C5 witness: a retained warm-up bar with an overbought RSI, signal None *)
C5_Witness ==
    /\ pc = "done"
    /\ Len(df) = 1
    /\ df[1].time = 0
    /\ df[1].RSI = RSI_OVERBOUGHT
    /\ df[1].EMAsignal = 0
    /\ df[1].TotSignal = 0

(* C6 as stated: once generate_ema_signal has ended, every bar i with a    *)
(* full window i-backcandles..i carries the label of the re-scan of that   *)
(* window.                                                                 *)
C6_Bar(t) == CHOOSE r \in {df[k] : k \in 1..Len(df)} : r.time = t
C6_Up(i) ==
    \A t \in (i - Backcandles)..i : ~Le(C6_Bar(t).Low, C6_Bar(t).EMA)
C6_Down(i) ==
    \A t \in (i - Backcandles)..i : ~Ge(C6_Bar(t).High, C6_Bar(t).EMA)
C6_Rescan(i) ==
    IF C6_Up(i) /\ ~C6_Down(i) THEN 2
    ELSE IF C6_Down(i) /\ ~C6_Up(i) THEN 1
    ELSE IF C6_Up(i) /\ C6_Down(i) THEN 3
    ELSE 0
C6_Original ==
    pc # "ema" =>
        \A i \in Backcandles..(Len(emasignal) - 1) :
            emasignal[i + 1] = C6_Rescan(i)

(* C9 as stated: when generate_ema_signal runs, no row of the frame has an *)
(* undefined EMA or RSI.                                                   *)
C9_Original ==
    pc = "ema" =>
        \A r \in 1..Len(df) : df[r].EMA # NaN /\ df[r].RSI # NaN

(* C10: in the frame generate_total_signal returns, no bar has an          *)
(* undefined RSI, the bars are in their original order and indexed         *)
(* 0..m-1, and each carries one signal in {0, 1, 2}: the one computed for  *)
(* that bar before the drop.                                               *)
C10_Output ==
    pc = "done" =>
        /\ \A r \in 1..Len(df) :
               /\ df[r].RSI # NaN
               /\ df[r].idx = r - 1
               /\ df[r].TotSignal \in {0, 1, 2}
               /\ df[r].time + 1 \in 1..Len(TotSignal)
               /\ df[r].TotSignal = TotSignal[df[r].time + 1]
               /\ C4_Law(df[r].TotSignal, df[r].EMAsignal, df[r].RSI)
        /\ \A a \in 1..Len(df) : \A b \in 1..Len(df) :
               a < b => df[a].time < df[b].time

(* C10 witness: the first bar was dropped and the second, a Buy, is now    *)
(* row 0                                                                   *)
C10_Witness ==
    /\ pc = "done"
    /\ Len(TotSignal) = 2
    /\ Len(df) = 1
    /\ df[1].time = 1
    /\ df[1].idx = 0
    /\ df[1].TotSignal = 2

----------------------------------------------------------------------------
(* main from generate_total_signal on: the signals, prepare_backtest_data  *)
(* and the three replays, each over the frame the signals were computed on *)

BACKTEST_MONTHS == 30
TotalPeriods == 24 * 4 * BACKTEST_MONTHS

(* df[startid:startid + total_periods] with startid = 0 *)
PrepareBacktestData(d) == SubSeq(d, 1, Min(Len(d), TotalPeriods))

(* the mysize a new strategy instance reads: the class attribute, which    *)
(* self.mysize = ... of an earlier instance never changes                  *)
NewInstanceSizeShared(old) == old
NewInstanceSize(old) == InitSize

(* the order of the run_backtest calls in main *)
NextVariant(v) == IF v = "A" THEN "B" ELSE "C"

(* lines 376-384: the frame is cut and the first replay is set up *)
StartReplay ==
    /\ pc = "done"
    /\ df' = PrepareBacktestData(df)
    /\ pc' = "broker"
    /\ UNCHANGED <<row, emasignal, TotSignal>>
    /\ UNCHANGED replayVars
    /\ UNCHANGED mainVars

(* one bar of Backtest.run(): signal1 of the bar is TotSignal of its row *)
BrokerBar ==
    /\ pc = "broker"
    /\ bar < Len(df)
    /\ BrokerNext
    /\ signal1' = df[bar + 1].TotSignal

(* bt.run() returns at the end of the data, results[...] = stats, and the  *)
(* next run_backtest builds a new Backtest with a new strategy instance    *)
NextBacktest ==
    /\ pc = "broker"
    /\ bar = Len(df)
    /\ results' = Append(results, [variant |-> variant, mysize |-> mysize])
    /\ IF variant = "C"
       THEN /\ pc' = "end"
            /\ UNCHANGED replayVars
       ELSE /\ pc' = "broker"
            /\ variant' = NextVariant(variant)
            /\ mysize' = NewInstanceSize(mysize)
            /\ bar' = 0
            /\ Close' = 11000
            /\ ATR' = 100
            /\ signal1' = 0
            /\ trades' = <<>>
            /\ orders' = <<>>
            /\ closed_trades' = <<>>
            /\ nextId' = 1
            /\ orderLog' = <<>>
            /\ rejected' = FALSE
    /\ UNCHANGED pipeVars

MainRsiVals == {NaN, RSI_OVERSOLD, RSI_OVERBOUGHT}
MainRows == LabelVals \X MainRsiVals
MainFrame(f) == [i \in 1..Len(f) |-> Row(i - 1, 2, 2, 2, f[i][2], f[i][1])]

InitMain ==
    /\ pc = "tot"
    /\ \E n \in 0..MaxMainRows : \E f \in [1..n -> MainRows] : df = MainFrame(f)
    /\ row = 0
    /\ emasignal = <<>>
    /\ TotSignal = Zeros(Len(df))
    /\ ReplayIdle

NextMain ==
    \/ TotRow
    \/ TotReturn
    \/ StartReplay
    \/ BrokerBar
    \/ Strategy1Next
    \/ Strategy2Next
    \/ Strategy3Next
    \/ NextBacktest

SpecMain == InitMain /\ [][NextMain]_vars

----------------------------------------------------------------------------
(* Properties of the entry and exit rules *)

(* C11: in variant C, next() asks to close every open long on a Sell bar   *)
(* and every open short on a Buy bar, wherever its stop is, and the broker *)
(* runs that close on the next bar; an entry is issued only when no trade  *)
(* is open once the trades have been managed, with stop Close - 1.5 ATR    *)
(* for a long and Close + 1.5 ATR for a short; no order or trade of        *)
(* variant C carries a take-profit.                                        *)
C11_Dist == (15 * ATR) \div 10
C11_FlipExit ==
    /\ [](variant = "C" =>
            /\ \A i \in 1..Len(trades) : trades[i].tp = 0
            /\ \A i \in 1..Len(orders) : orders[i].tp = 0)
    /\ [][(variant = "C" /\ pc = "strategy") =>
            /\ Len(trades') = Len(trades)
            /\ \A i \in 1..Len(trades) :
                 /\ (trades[i].is_long /\ signal1 = 1) => trades'[i].closing
                 /\ (~trades[i].is_long /\ signal1 = 2) => trades'[i].closing
                 /\ (trades[i].is_long /\ signal1 # 1)
                        => trades'[i].closing = trades[i].closing
                 /\ (~trades[i].is_long /\ signal1 # 2)
                        => trades'[i].closing = trades[i].closing
            /\ (Len(trades) > 0 \/ signal1 = 0) => orders' = <<>>
            /\ (Len(trades) = 0 /\ signal1 = 2) =>
                 orders' = <<[is_long |-> TRUE, sl |-> Close - C11_Dist,
                              tp |-> 0, size |-> mysize]>>
            /\ (Len(trades) = 0 /\ signal1 = 1) =>
                 orders' = <<[is_long |-> FALSE, sl |-> Close + C11_Dist,
                              tp |-> 0, size |-> mysize]>>]_vars
    /\ [][(variant = "C" /\ pc = "broker") =>
            \A i \in 1..Len(trades) : \A j \in 1..Len(trades') :
                trades[i].closing => trades'[j].id # trades[i].id]_vars

(* C11 witness: a long is being closed on a Sell bar although its stop     *)
(* lies above the bar's Close - 1.5 ATR                                    *)
C11_Witness ==
    /\ variant = "C"
    /\ pc = "broker"
    /\ signal1 = 1
    /\ Len(trades) = 1
    /\ trades[1].is_long
    /\ trades[1].closing
    /\ trades[1].sl > Close - C11_Dist
    /\ Len(closed_trades) > 0

(* C12: in variant A, on a bar with no open trade, Buy issues exactly one  *)
(* long with stop Close - 45, target Close + 45 and the size that this     *)
(* bar's sizing step left in mysize; Sell issues exactly one short with    *)
(* stop Close + 45 and target Close - 45; no signal, or an open trade,     *)
(* issues nothing.                                                         *)
C12_EntryRule ==
    (variant = "A" /\ pc = "broker" /\ bar >= 1) =>
        /\ (Len(trades) = 0 /\ signal1 = 2) =>
             orders = <<[is_long |-> TRUE, sl |-> Close - 45,
                         tp |-> Close + 45, size |-> mysize]>>
        /\ (Len(trades) = 0 /\ signal1 = 1) =>
             orders = <<[is_long |-> FALSE, sl |-> Close + 45,
                         tp |-> Close - 45, size |-> mysize]>>
        /\ (Len(trades) > 0 \/ signal1 = 0) => orders = <<>>
        /\ \A i \in 1..Len(orders) :
             /\ orders[i].tp - Close = Close - orders[i].sl
             /\ orders[i].is_long <=> orders[i].sl < Close

(* C12 witness: a short issued with the size doubled on this very bar *)
C12_Witness ==
    /\ variant = "A"
    /\ pc = "broker"
    /\ signal1 = 1
    /\ Len(orders) = 1
    /\ ~orders[1].is_long
    /\ orders[1].size = 2 * InitSize
    /\ orderLog[Len(orderLog)].before = InitSize

(* C13: in variant B every entry asks for initsize whatever the earlier    *)
(* trades did (mysize never changes), with the stop 1.3 ATR from the close *)
(* and the target 1.3 * 1.3 ATR from it, stop below and target above for a *)
(* long, the reverse for a short.                                          *)
C13_Stop == (13 * ATR) \div 10
C13_Target == (169 * ATR) \div 100
C13_AtrEntries ==
    variant = "B" =>
        /\ mysize = InitSize
        /\ \A j \in 1..Len(orderLog) : orderLog[j].size = InitSize
        /\ \A i \in 1..Len(trades) : trades[i].size = InitSize
        /\ pc = "broker" =>
             \A i \in 1..Len(orders) :
                 /\ orders[i].size = InitSize
                 /\ orders[i].is_long <=> signal1 = 2
                 /\ orders[i].is_long =>
                      /\ orders[i].sl = Close - C13_Stop
                      /\ orders[i].tp = Close + C13_Target
                 /\ ~orders[i].is_long =>
                      /\ orders[i].sl = Close + C13_Stop
                      /\ orders[i].tp = Close - C13_Target

(* C13 witness: an entry at initsize right after two losing trades *)
C13_Witness ==
    /\ variant = "B"
    /\ pc = "broker"
    /\ Len(orders) = 1
    /\ Len(closed_trades) = 2
    /\ closed_trades[1] < 0
    /\ closed_trades[2] < 0
    /\ orders[1].size = InitSize

----------------------------------------------------------------------------
(* Properties of the input handling and of the scan *)

(* C15 as stated: a frame that holds a bar with defined EMA and RSI but no *)
(* High never gets through generate_total_signal: the run aborts instead   *)
(* of returning a frame.                                                   *)
C15_Malformed(r) == r.EMA # NaN /\ r.RSI # NaN /\ r.High = NaN
C15_Original ==
    [][(\E r \in 1..Len(df) : C15_Malformed(df[r])) => pc' # "done"]_vars

(* C16 as stated: the scan for every row from backcandles-1 on reads only  *)
(* index labels in 0..n-1 and ends with a label, never with an error.      *)
C16_Original ==
    /\ (pc = "ema" /\ row < Len(df)) =>
           \A i \in (row - Backcandles)..row : i \in 0..(Len(df) - 1)
    /\ pc # "KeyError"

(* C18: the label 3 is written for a row only if its window holds a bar    *)
(* with an undefined EMA or with Low above High; over a window whose bars  *)
(* all have a defined EMA and Low <= High the two flags never both survive.*)
C18_Odd(r) == r.EMA = NaN \/ r.Low > r.High
C18_NoAmbiguous ==
    \A i \in 1..Len(emasignal) :
        emasignal[i] = 3 =>
            \E k \in 1..Len(df) :
                /\ df[k].idx \in (i - 1 - Backcandles)..(i - 1)
                /\ C18_Odd(df[k])

(* C18 witness: a row whose whole window is above a defined EMA with       *)
(* Low <= High has been scanned and labelled 2, and the row after it, whose*)
(* window takes in a bar with Low above High, is not labelled 3 either     *)
C18_Witness ==
    /\ pc = "ema"
    /\ Len(df) = MaxScanRows
    /\ row = Len(df)
    /\ \A k \in 1..(Backcandles + 1) : ~C18_Odd(df[k]) /\ df[k].Low > df[k].EMA
    /\ emasignal[Backcandles + 1] = 2
    /\ df[Len(df)].Low > df[Len(df)].High
    /\ emasignal[Len(df)] # 3

----------------------------------------------------------------------------
(* Properties of main: signals into replays, one replay after another *)

C17_Actionable ==
    (pc = "broker" /\ bar >= 1) =>
        /\ \A i \in 1..Len(orders) :
             /\ orders[i].is_long => df[bar].EMAsignal = 2
             /\ ~orders[i].is_long => df[bar].EMAsignal = 1
        /\ \A i \in 1..Len(trades) :
             trades[i].closing =>
                 /\ trades[i].is_long => df[bar].EMAsignal = 1
                 /\ ~trades[i].is_long => df[bar].EMAsignal = 2
        /\ df[bar].EMAsignal \in {0, 3} =>
             /\ orders = <<>>
             /\ \A i \in 1..Len(trades) : ~trades[i].closing

(* C17 witness: variant C holds a long through a bar labelled 3 with an    *)
(* oversold RSI: no close, no entry                                        *)
C17_Witness ==
    /\ pc = "broker"
    /\ variant = "C"
    /\ bar >= 2
    /\ df[bar].EMAsignal = 3
    /\ df[bar].RSI = RSI_OVERSOLD
    /\ df[bar - 1].EMAsignal = 2
    /\ Len(trades) = 1
    /\ trades[1].is_long
    /\ ~trades[1].closing
    /\ orders = <<>>

====
